---- MODULE Spec2Model ----
(***************************************************************************)
(* Model of the execution-graph builder, src/typescript/api/builder.ts.    *)
(*                                                                         *)
(* build(compiledGraph, runConfig) translates every materialization,       *)
(* operation and assertion into an execution node, checks that every       *)
(* dependency exists, checks for circular dependencies, determines the     *)
(* included nodes (selectors, optional transitive dependencies) and prunes *)
(* the dependencies of the included nodes.                                 *)
(*                                                                         *)
(* A name is a sequence of characters, so that the wildcard "*" of         *)
(* utils.matchPatterns is computed character by character.  A node is      *)
(* referred to by its index in allNodes (JavaScript object identity).      *)
(***************************************************************************)
EXTENDS Integers, Sequences, FiniteSets, TLC

VARIABLES
    compiledGraph,      \* the ICompiledGraph object handed to build
    runConfig,          \* the IRunConfig object handed to build
    given,              \* the value of both inputs before the first call
    call,               \* 1 during the first build call, 2 during the second
    pc,                 \* position inside Builder.build
    allNodes,           \* var allNodes (line 28)
    allNodeNames,       \* var allNodeNames (line 36)
    includedNodeNames,  \* var includedNodeNames (line 71)
    includedNodes,      \* var includedNodes (line 75), as indices into allNodes
    result,             \* what the current call returned or threw
    firstResult         \* what the first call returned or threw

vars == <<compiledGraph, runConfig, given, call, pc, allNodes, allNodeNames,
          includedNodeNames, includedNodes, result, firstResult>>

----------------------------------------------------------------------------
(* Bounds of the model and the input alphabet.                             *)

\* The most dependency entries a compiled graph declares, all entities together.
MaxEdges == 2

\* Names an entity may carry.  "a*" is a legal name that is also a pattern.
NodeNames == { <<"a">>, <<"a", "*">>, <<"b">> }

\* Entries a dependencies list may hold: any name, used or not by the graph.
DepEntries == NodeNames

\* Values of runConfig.nodes: absent, empty, exact, trailing and leading
\* wildcard, and a selector that matches nothing.
\* How many materializations, operations and assertions a compiled graph holds.
KindLayouts ==
    { <<0, 0, 0>>, <<1, 0, 0>>, <<0, 1, 0>>, <<0, 0, 1>>,
      <<1, 1, 0>>, <<0, 1, 1>>, <<0, 0, 2>>,
      <<1, 1, 1>>, <<2, 1, 0>>, <<0, 2, 1>> }

SelectorLists ==
    { << >>, << <<"a", "*">> >>, << <<"*", "b">> >>, << <<"c">> >>,
      << <<"b">>, <<"a">> >> }

----------------------------------------------------------------------------
(* Helpers over sequences.                                                 *)

Range(s) == { s[k] : k \in 1..Len(s) }

\* Array.prototype.indexOf(x) >= 0
InSeq(x, s) == \E k \in 1..Len(s) : s[k] = x

----------------------------------------------------------------------------
(* utils.matchPatterns: the values that match at least one pattern, in the *)
(* order of the values.  A pattern matches by equality, "*" standing for   *)
(* any run of characters, the empty one included.                          *)

RECURSIVE Matches(_, _)
Matches(pattern, value) ==
    IF pattern = << >>
    THEN value = << >>
    ELSE IF Head(pattern) = "*"
         THEN \/ Matches(Tail(pattern), value)
              \/ value # << >> /\ Matches(pattern, Tail(value))
         ELSE /\ value # << >>
              /\ Head(value) = Head(pattern)
              /\ Matches(Tail(pattern), Tail(value))

matchPatterns(patterns, values) ==
    SelectSeq(values, LAMBDA v : \E k \in 1..Len(patterns) : Matches(patterns[k], v))

----------------------------------------------------------------------------
(* Translation of the entities into execution nodes (lines 113-149).       *)

\* this.adapter.build(materialization, runConfig): the adapter's tasks.
adapterBuild(materialization, rc) ==
    << [type |-> "statement", statement |-> "create"] >>

\* A task object literal that sets no type has none.
TaskType(task) == IF "type" \in DOMAIN task THEN task.type ELSE "undefined"

buildMaterialization(materialization, rc) ==
    [ name         |-> materialization.name,
      dependencies |-> materialization.dependencies,
      tasks        |->
          [k \in 1..Len(materialization.pres) |->
              [statement |-> materialization.pres[k]]]
          \o adapterBuild(materialization, rc)
          \o [k \in 1..Len(materialization.posts) |->
                 [statement |-> materialization.posts[k]]]
          \o [k \in 1..Len(materialization.assertions) |->
                 [statement |-> materialization.assertions[k], type |-> "assertion"]] ]

buildOperation(operation) ==
    [ name         |-> operation.name,
      dependencies |-> operation.dependencies,
      tasks        |-> [k \in 1..Len(operation.statements) |->
                           [type |-> "statement", statement |-> operation.statements[k]]] ]

buildAssertion(assertion) ==
    [ name         |-> assertion.name,
      dependencies |-> assertion.dependencies,
      tasks        |-> [k \in 1..Len(assertion.queries) |->
                           [type |-> "assertion", statement |-> assertion.queries[k]]] ]

\* [].concat(materializations.map(..), operations.map(..), assertions.map(..))
translateAll(graph, rc) ==
    [k \in 1..Len(graph.materializations) |->
        buildMaterialization(graph.materializations[k], rc)]
    \o [k \in 1..Len(graph.operations) |-> buildOperation(graph.operations[k])]
    \o [k \in 1..Len(graph.assertions) |-> buildAssertion(graph.assertions[k])]

\* allNodes.map(n => n.name)
namesOf(nodes) == [k \in 1..Len(nodes) |-> nodes[k].name]

\* nodeNameMap[node.name] = node, for every node in turn: the last one wins.
\* A name that is no key reads as undefined.
Undefined == 0

nodeNameMap(nodes, name) ==
    IF \E i \in 1..Len(nodes) : nodes[i].name = name
    THEN CHOOSE i \in 1..Len(nodes) :
             /\ nodes[i].name = name
             /\ \A j \in 1..Len(nodes) : nodes[j].name = name => j <= i
    ELSE Undefined

----------------------------------------------------------------------------
(* Errors and results.  One record shape serves every outcome.             *)

NoError == [kind |-> "none", node |-> << >>, dependency |-> << >>, chain |-> << >>]

\* Node "<node>" depends on "<dependency>" which does not exist.
MissingError(node, dependency) ==
    [kind |-> "missing", node |-> node, dependency |-> dependency, chain |-> << >>]

\* Circular dependency detected in chain: [<chain joined by " > ">]
CircularError(chain) ==
    [kind |-> "circular", node |-> << >>, dependency |-> << >>, chain |-> chain]

\* TypeError: reading a property of undefined.
TypeError == [kind |-> "typeError", node |-> << >>, dependency |-> << >>, chain |-> << >>]

NoResult == [status |-> "none", error |-> NoError, nodes |-> << >>]

Thrown(error) == [status |-> "error", error |-> error, nodes |-> << >>]

\* return { projectConfig, runConfig, nodes: includedNodes }
Returned(graph, rc, nodes) ==
    [status |-> "graph", error |-> NoError, nodes |-> nodes,
     projectConfig |-> graph.projectConfig, runConfig |-> rc]

----------------------------------------------------------------------------
(* Validation (lines 40-68).                                               *)

\* The (node, dependency) positions whose dependency is no node name.
MissingPairs(nodes, names) ==
    UNION { { <<i, k>> : k \in { j \in 1..Len(nodes[i].dependencies) :
                                    ~InSeq(nodes[i].dependencies[j], names) } }
            : i \in 1..Len(nodes) }

\* As checkDependenciesExist, were only the first dependency of a node looked up.
checkFirstDependencyExists(nodes, names) ==
    LET missing == { p \in MissingPairs(nodes, names) : p[2] = 1 } IN
    IF missing = {}
    THEN NoError
    ELSE LET p == CHOOSE p \in missing : \A q \in missing : p[1] <= q[1]
         IN MissingError(nodes[p[1]].name, nodes[p[1]].dependencies[p[2]])

\* The two nested forEach throw at the first such position.
checkDependenciesExist(nodes, names) ==
    LET missing == MissingPairs(nodes, names) IN
    IF missing = {}
    THEN NoError
    ELSE LET p == CHOOSE p \in missing :
                      \A q \in missing :
                          p[1] < q[1] \/ (p[1] = q[1] /\ p[2] <= q[2])
         IN MissingError(nodes[p[1]].name, nodes[p[1]].dependencies[p[2]])

\* checkCircular(node, dependents): depth first along the dependencies, the
\* chain of dependents copied per branch; the first throw ends the walk.
RECURSIVE checkCircular(_, _, _), checkCircularFrom(_, _, _, _)
checkCircular(nodes, node, dependents) ==
    IF InSeq(node, dependents)
    THEN CircularError([k \in 1..(Len(dependents) + 1) |->
                           nodes[(dependents \o <<node>>)[k]].name])
    ELSE IF node = Undefined
         THEN TypeError
         ELSE checkCircularFrom(nodes, node, dependents \o <<node>>, 1)

checkCircularFrom(nodes, node, chain, k) ==
    IF k > Len(nodes[node].dependencies)
    THEN NoError
    ELSE LET thrown == checkCircular(nodes, nodeNameMap(nodes, nodes[node].dependencies[k]), chain)
         IN IF thrown.kind # "none" THEN thrown
            ELSE checkCircularFrom(nodes, node, chain, k + 1)

\* As checkCircularAll, were the walk started from the first node only.
checkCircularFirstRoot(nodes, root) ==
    IF root > Len(nodes) THEN NoError ELSE checkCircular(nodes, root, << >>)

\* allNodes.forEach(node => checkCircular(node, []))
RECURSIVE checkCircularAll(_, _)
checkCircularAll(nodes, root) ==
    IF root > Len(nodes)
    THEN NoError
    ELSE LET thrown == checkCircular(nodes, root, << >>)
         IN IF thrown.kind # "none" THEN thrown
            ELSE checkCircularAll(nodes, root + 1)

----------------------------------------------------------------------------
(* Selection (lines 70-98).                                                *)

\* this.runConfig.nodes && this.runConfig.nodes.length > 0
hasSelectors(rc) == rc.nodesPresent /\ Len(rc.nodes) > 0

\* As initialIncludedNames, were an empty selector list matched like any other.
initialIncludedAlwaysMatched(rc, names) == matchPatterns(rc.nodes, names)

\* hasSelectors ? utils.matchPatterns(this.runConfig.nodes, allNodeNames)
\*              : allNodeNames
initialIncludedNames(rc, names) ==
    IF hasSelectors(rc) THEN matchPatterns(rc.nodes, names) ELSE names

\* Without selectors includedNodeNames is the allNodeNames array itself, so a
\* push to the one is a push to the other.
namesAliased(rc) == ~hasSelectors(rc)

\* allNodes.filter(node => includedNodeNames.indexOf(node.name) >= 0)
filterIncluded(nodes, includedNames) ==
    SelectSeq([i \in 1..Len(nodes) |-> i],
              LAMBDA i : InSeq(nodes[i].name, includedNames))

\* matchingNodeNames.forEach: push the names not yet included.
RECURSIVE pushNew(_, _)
pushNew(includedNames, matching) ==
    IF matching = << >>
    THEN includedNames
    ELSE pushNew(IF InSeq(Head(matching), includedNames)
                 THEN includedNames
                 ELSE Append(includedNames, Head(matching)),
                 Tail(matching))

\* includedNodes.forEach over the array includedNodes held when the forEach
\* began (snapshot), from its k-th node on.  st holds includedNodeNames
\* (names), allNodeNames (all) and includedNodes (nodes).
RECURSIVE expandEach(_, _, _, _, _)
expandEach(nodes, aliased, snapshot, k, st) ==
    IF k > Len(snapshot)
    THEN st
    ELSE LET node     == nodes[snapshot[k]]
             matching == IF Len(node.dependencies) > 0
                         THEN matchPatterns(node.dependencies, st.all)
                         ELSE << >>
             names    == pushNew(st.names, matching)
         IN expandEach(nodes, aliased, snapshot, k + 1,
                       [names |-> names,
                        all   |-> IF aliased THEN names ELSE st.all,
                        nodes |-> filterIncluded(nodes, names)])

\* As expandAll, were the included nodes expanded once instead of
\* allNodes.length times.
expandOnce(nodes, aliased, i, st) ==
    IF i >= Len(nodes) THEN st ELSE expandEach(nodes, aliased, st.nodes, 1, st)

\* for (let i = 0; i < allNodes.length; i++) { includedNodes.forEach(..) }
RECURSIVE expandAll(_, _, _, _)
expandAll(nodes, aliased, i, st) ==
    IF i >= Len(nodes)
    THEN st
    ELSE expandAll(nodes, aliased, i + 1, expandEach(nodes, aliased, st.nodes, 1, st))

\* Lines 70-98 as a whole.
selectIncluded(nodes, names, rc) ==
    LET initial == [names |-> initialIncludedNames(rc, names),
                    all   |-> names,
                    nodes |-> filterIncluded(nodes, initialIncludedNames(rc, names))]
    IN IF rc.includeDependencies
       THEN expandAll(nodes, namesAliased(rc), 0, initial)
       ELSE initial

----------------------------------------------------------------------------
(* Pruning (lines 99-105).                                                 *)

\* As prunedDependencies, were the dependencies left as declared.
prunedDependenciesKept(node, includedNames) == node.dependencies

\* utils.matchPatterns(node.dependencies, includedNodeNames)
prunedDependencies(node, includedNames) ==
    matchPatterns(node.dependencies, includedNames)

\* As pruneAll, were the pruning pass left out.
pruneNone(nodes, included, includedNames) == nodes

\* includedNodes.forEach(node => { node.dependencies = ... })
pruneAll(nodes, included, includedNames) ==
    [ i \in 1..Len(nodes) |->
        IF InSeq(i, included)
        THEN [nodes[i] EXCEPT !.dependencies = prunedDependencies(nodes[i], includedNames)]
        ELSE nodes[i] ]

\* As entityDependencies, were the shared array pruned in place.
entityDependenciesShared(entity, node) == node.dependencies

\* The assignment gives the node a new array: the array of the entity the
\* node was created from, which the node shared until then, is not written.
entityDependencies(entity, node) == entity.dependencies

\* The compiled graph once the nodes (allNodes, entity by entity) are pruned.
entitiesAfterPrune(graph, nodes) ==
    LET m == Len(graph.materializations)
        o == Len(graph.operations)
    IN [ graph EXCEPT
           !.materializations =
               [k \in 1..m |-> [graph.materializations[k] EXCEPT
                   !.dependencies = entityDependencies(graph.materializations[k], nodes[k])]],
           !.operations =
               [k \in 1..o |-> [graph.operations[k] EXCEPT
                   !.dependencies = entityDependencies(graph.operations[k], nodes[m + k])]],
           !.assertions =
               [k \in 1..Len(graph.assertions) |-> [graph.assertions[k] EXCEPT
                   !.dependencies = entityDependencies(graph.assertions[k], nodes[m + o + k])]] ]

----------------------------------------------------------------------------
(* The inputs: compiled graphs and run configurations.                     *)

Materialization(name, dependencies, k) ==
    [ name |-> name, dependencies |-> dependencies,
      pres       |-> SubSeq(<<"pre1", "pre2">>, 1, k % 3),
      posts      |-> SubSeq(<<"post1", "post2">>, 1, (k + 1) % 3),
      assertions |-> SubSeq(<<"check1", "check2">>, 1, (k + 2) % 3) ]

Operation(name, dependencies, k) ==
    [ name |-> name, dependencies |-> dependencies,
      statements |-> SubSeq(<<"stmt1", "stmt2">>, 1, (k + 1) % 3) ]

Assertion(name, dependencies, k) ==
    [ name |-> name, dependencies |-> dependencies,
      queries |-> SubSeq(<<"query1", "query2">>, 1, (k + 1) % 3) ]

\* n entities named names[1..n] with dependencies deps[1..n]: the first m are
\* materializations, the next o operations, the rest assertions.
CompiledGraph(names, deps, m, o) ==
    [ projectConfig    |-> [warehouse |-> "bigquery"],
      materializations |-> [k \in 1..m |-> Materialization(names[k], deps[k], k)],
      operations       |-> [k \in 1..o |-> Operation(names[m + k], deps[m + k], k)],
      assertions       |-> [k \in 1..(Len(names) - m - o) |->
                               Assertion(names[m + o + k], deps[m + o + k], k)] ]

\* Entity names are unique: a name identifies its entity.
NameSeqs(n) ==
    { s \in [1..n -> NodeNames] : \A i, j \in 1..n : i # j => s[i] # s[j] }

DepSeqs == UNION { [1..k -> DepEntries] : k \in 0..MaxEdges }

RECURSIVE TotalLen(_, _)
TotalLen(deps, n) == IF n = 0 THEN 0 ELSE Len(deps[n]) + TotalLen(deps, n - 1)

DepAssignments(n) == { d \in [1..n -> DepSeqs] : TotalLen(d, n) <= MaxEdges }

RunConfigs ==
    { [nodesPresent |-> FALSE, nodes |-> << >>, includeDependencies |-> b] : b \in BOOLEAN }
    \cup { [nodesPresent |-> TRUE, nodes |-> s, includeDependencies |-> b] :
              s \in SelectorLists, b \in BOOLEAN }

----------------------------------------------------------------------------
(* The state machine: build called twice on the same two objects.          *)

Init ==
    /\ \E layout \in KindLayouts :
         LET n == layout[1] + layout[2] + layout[3] IN
         \E names \in NameSeqs(n), deps \in DepAssignments(n) :
           compiledGraph = CompiledGraph(names, deps, layout[1], layout[2])
    /\ runConfig \in RunConfigs
    /\ given = [graph |-> compiledGraph, runConfig |-> runConfig]
    /\ call = 1
    /\ pc = "translate"
    /\ allNodes = << >>
    /\ allNodeNames = << >>
    /\ includedNodeNames = << >>
    /\ includedNodes = << >>
    /\ result = NoResult
    /\ firstResult = NoResult

\* Lines 27-38.
Translate ==
    /\ pc = "translate"
    /\ allNodes' = translateAll(compiledGraph, runConfig)
    /\ allNodeNames' = namesOf(allNodes')
    /\ pc' = "checkExist"
    /\ UNCHANGED <<compiledGraph, runConfig, given, call, includedNodeNames,
                   includedNodes, result, firstResult>>

\* Lines 40-51.
CheckDependenciesExist ==
    /\ pc = "checkExist"
    /\ LET thrown == checkDependenciesExist(allNodes, allNodeNames) IN
         IF thrown.kind # "none"
         THEN pc' = "failed" /\ result' = Thrown(thrown)
         ELSE pc' = "checkCircular" /\ result' = result
    /\ UNCHANGED <<compiledGraph, runConfig, given, call, allNodes, allNodeNames,
                   includedNodeNames, includedNodes, firstResult>>

\* Lines 52-68.
CheckCircular ==
    /\ pc = "checkCircular"
    /\ LET thrown == checkCircularAll(allNodes, 1) IN
         IF thrown.kind # "none"
         THEN pc' = "failed" /\ result' = Thrown(thrown)
         ELSE pc' = "select" /\ result' = result
    /\ UNCHANGED <<compiledGraph, runConfig, given, call, allNodes, allNodeNames,
                   includedNodeNames, includedNodes, firstResult>>

\* Lines 70-98.
Select ==
    /\ pc = "select"
    /\ LET st == selectIncluded(allNodes, allNodeNames, runConfig) IN
         /\ includedNodeNames' = st.names
         /\ allNodeNames' = st.all
         /\ includedNodes' = st.nodes
    /\ pc' = "prune"
    /\ UNCHANGED <<compiledGraph, runConfig, given, call, allNodes, result, firstResult>>

\* Lines 99-110.
Prune ==
    /\ pc = "prune"
    /\ allNodes' = pruneAll(allNodes, includedNodes, includedNodeNames)
    /\ compiledGraph' = entitiesAfterPrune(compiledGraph, allNodes')
    /\ result' = Returned(compiledGraph', runConfig,
                          [k \in 1..Len(includedNodes) |-> allNodes'[includedNodes[k]]])
    /\ pc' = "returned"
    /\ UNCHANGED <<runConfig, given, call, allNodeNames, includedNodeNames,
                   includedNodes, firstResult>>

\* The caller calls build again with the same two objects (lines 4-9): a new
\* Builder, new locals.
BuildAgain ==
    /\ pc \in {"returned", "failed"}
    /\ call = 1
    /\ firstResult' = result
    /\ call' = 2
    /\ pc' = "translate"
    /\ allNodes' = << >>
    /\ allNodeNames' = << >>
    /\ includedNodeNames' = << >>
    /\ includedNodes' = << >>
    /\ result' = NoResult
    /\ UNCHANGED <<compiledGraph, runConfig, given>>

Next ==
    \/ Translate
    \/ CheckDependenciesExist
    \/ CheckCircular
    \/ Select
    \/ Prune
    \/ BuildAgain

Spec == Init /\ [][Next]_vars

----------------------------------------------------------------------------
(* The vocabulary of the properties: the graph and the run configuration   *)
(* as given, and the graph returned.                                       *)

Entities ==
    given.graph.materializations \o given.graph.operations \o given.graph.assertions

EntityNameSeq == [k \in 1..Len(Entities) |-> Entities[k].name]

EntityNames == Range(EntityNameSeq)

\* The names the entity called name declares as its dependencies.
Declared(name) ==
    UNION { Range(Entities[k].dependencies) :
            k \in { j \in 1..Len(Entities) : Entities[j].name = name } }

\* The names reached from S in at most k steps along declared dependencies.
RECURSIVE DeclaredReach(_, _)
DeclaredReach(S, k) ==
    IF k = 0 THEN S
    ELSE DeclaredReach(S \cup UNION { Declared(n) : n \in S }, k - 1)

DeclaredCycle ==
    \E n \in EntityNames :
        \E d \in Declared(n) : n \in DeclaredReach({d}, Len(Entities))

SomeDependencyMissing ==
    \E n \in EntityNames : \E d \in Declared(n) : d \notin EntityNames

\* Every dependency exists and the declared dependencies hold no cycle.
Validated == ~SomeDependencyMissing /\ ~DeclaredCycle

IsWildcard(entry) == InSeq("*", entry)

\* The node names the dependency entries of the entity called name match:
\* the node an entry names and, for an entry with a wildcard, every other
\* node name the pattern matches.
Resolved(name) ==
    { n \in EntityNames : \E d \in Declared(name) : Matches(d, n) }

\* The names reached from S in at most k steps along resolved dependencies.
RECURSIVE ResolvedReach(_, _)
ResolvedReach(S, k) ==
    IF k = 0 THEN S
    ELSE ResolvedReach(S \cup UNION { Resolved(n) : n \in S }, k - 1)

SelectorsGiven == given.runConfig.nodesPresent /\ given.runConfig.nodes # << >>

SelectorMatches(name) ==
    \E k \in 1..Len(given.runConfig.nodes) : Matches(given.runConfig.nodes[k], name)

InitiallyMatched ==
    IF SelectorsGiven THEN { n \in EntityNames : SelectorMatches(n) } ELSE EntityNames

Finished == pc \in {"returned", "failed"}

OutputNameSeq == [k \in 1..Len(result.nodes) |-> result.nodes[k].name]

OutputNames == Range(OutputNameSeq)

OutputDependencies(name) ==
    UNION { Range(result.nodes[k].dependencies) :
            k \in { j \in 1..Len(result.nodes) : result.nodes[j].name = name } }

RECURSIVE OutputReach(_, _)
OutputReach(S, k) ==
    IF k = 0 THEN S
    ELSE OutputReach(S \cup UNION { OutputDependencies(n) : n \in S }, k - 1)

OutputCycle ==
    \E n \in OutputNames :
        \E d \in OutputDependencies(n) : n \in OutputReach({d}, Len(result.nodes))

\* Position of a name in the full node set.
PositionOf(name) == CHOOSE k \in 1..Len(Entities) : Entities[k].name = name

----------------------------------------------------------------------------
(* C1: whenever build returns a graph, every name in the dependencies of   *)
(* an output node is the name of an output node.                           *)
C1_NoDanglingDependency ==
    pc = "returned" =>
        \A k \in 1..Len(result.nodes) :
            Range(result.nodes[k].dependencies) \subseteq OutputNames

\* A selection that kept a node with a dependency and dropped a declared one.
C1_Witness ==
    /\ pc = "returned"
    /\ SelectorsGiven
    /\ \E k \in 1..Len(result.nodes) :
          /\ result.nodes[k].dependencies # << >>
          /\ \E d \in Declared(result.nodes[k].name) : d \notin OutputNames

(* C2: if a node of the full set declares a dependency that is no node     *)
(* name, build fails with the does-not-exist error naming the depending    *)
(* node and the missing dependency, and returns no graph, whatever the run *)
(* configuration selects.                                                  *)
C2_MissingDependencyFails ==
    (Finished /\ SomeDependencyMissing) =>
        /\ pc = "failed"
        /\ result.status = "error"
        /\ result.error.kind = "missing"
        /\ result.error.node \in EntityNames
        /\ result.error.dependency \in Declared(result.error.node)
        /\ result.error.dependency \notin EntityNames
        /\ result.nodes = << >>

\* The failure of a build whose selectors match no node with a missing dependency.
C2_Witness ==
    /\ pc = "failed"
    /\ result.error.kind = "missing"
    /\ SelectorsGiven
    /\ \A n \in EntityNames :
          (\E d \in Declared(n) : d \notin EntityNames) => ~SelectorMatches(n)

(* C3: when every dependency exists, build fails with the circular-        *)
(* dependency error exactly when the declared dependencies hold a cycle;   *)
(* the chain reported is a path of declared dependencies, its elements     *)
(* before the last distinct and its last element one of them.              *)
C3_CircularIffCycle ==
    (Finished /\ ~SomeDependencyMissing) =>
        /\ (result.status = "error" /\ result.error.kind = "circular") <=> DeclaredCycle
        /\ result.error.kind = "circular" =>
              LET chain == result.error.chain
                  n     == Len(chain)
              IN /\ n >= 2
                 /\ \A k \in 1..(n - 1) : chain[k + 1] \in Declared(chain[k])
                 /\ \A i, j \in 1..(n - 1) : i # j => chain[i] # chain[j]
                 /\ \E i \in 1..(n - 1) : chain[i] = chain[n]

\* A cycle through two nodes, found with the chain [x > y > x].
C3_Witness ==
    /\ pc = "failed"
    /\ result.error.kind = "circular"
    /\ Len(result.error.chain) = 3
    /\ result.error.chain[1] = result.error.chain[3]

C6_PruneIsNoOp ==
    (Finished /\ ~SelectorsGiven /\ ~given.runConfig.includeDependencies /\ Validated) =>
        /\ pc = "returned"
        /\ OutputNameSeq = EntityNameSeq
        /\ \A k \in 1..Len(result.nodes) :
              result.nodes[k].dependencies = Entities[k].dependencies

(* C6 as amended: for a validated graph, without selectors and without     *)
(* includeDependencies, build returns all nodes, and every output node's   *)
(* dependencies hold every name it declared, each once and in the order of *)
(* the full node set: they are the node names its declared entries match,  *)
(* which are the declared names when no entry contains a wildcard.         *)
C6_PruneKeepsDeclaredNames ==
    (Finished /\ ~SelectorsGiven /\ ~given.runConfig.includeDependencies /\ Validated) =>
        /\ pc = "returned"
        /\ OutputNameSeq = EntityNameSeq
        /\ \A k \in 1..Len(result.nodes) :
              LET out      == result.nodes[k].dependencies
                  declared == Range(Entities[k].dependencies)
              IN /\ declared \subseteq Range(out)
                 /\ Range(out) = Resolved(Entities[k].name)
                 /\ \A i, j \in 1..Len(out) :
                       i < j => PositionOf(out[i]) < PositionOf(out[j])
                 /\ (\A d \in declared : ~IsWildcard(d)) => Range(out) = declared

\* All nodes returned, one of them with two plain dependencies now in another order.
C6_Witness ==
    /\ pc = "returned"
    /\ ~SelectorsGiven
    /\ ~given.runConfig.includeDependencies
    /\ \E k \in 1..Len(result.nodes) :
          /\ Len(Entities[k].dependencies) = 2
          /\ \A d \in Range(Entities[k].dependencies) : ~IsWildcard(d)
          /\ result.nodes[k].dependencies # Entities[k].dependencies

(* C7: translation yields one node per entity, name and dependencies       *)
(* copied, the tasks in the fixed order: statement-typed tasks for the     *)
(* pres, the adapter's tasks, statement-typed tasks for the posts and      *)
(* assertion-typed tasks for the embedded assertions of a materialization; *)
(* statement-typed tasks for an operation's statements; assertion-typed    *)
(* tasks for an assertion's queries.                                       *)
C7_Translation ==
    pc = "checkExist" =>
        LET m == Len(given.graph.materializations)
            o == Len(given.graph.operations)
            Typed(type, statements) ==
                [t \in 1..Len(statements) |-> [type |-> type, statement |-> statements[t]]]
            Expected(k) ==
                IF k <= m
                THEN Typed("statement", Entities[k].pres)
                     \o adapterBuild(Entities[k], given.runConfig)
                     \o Typed("statement", Entities[k].posts)
                     \o Typed("assertion", Entities[k].assertions)
                ELSE IF k <= m + o
                     THEN Typed("statement", Entities[k].statements)
                     ELSE Typed("assertion", Entities[k].queries)
        IN /\ Len(allNodes) = Len(Entities)
           /\ \A k \in 1..Len(allNodes) :
                 /\ allNodes[k].name = Entities[k].name
                 /\ allNodes[k].dependencies = Entities[k].dependencies
                 /\ Len(allNodes[k].tasks) = Len(Expected(k))
                 /\ \A t \in 1..Len(allNodes[k].tasks) :
                       /\ TaskType(allNodes[k].tasks[t]) = Expected(k)[t].type
                       /\ allNodes[k].tasks[t].statement = Expected(k)[t].statement

C9_WildcardDependencyAccepted ==
    (/\ Finished
     /\ \A n \in EntityNames :
           \A d \in Declared(n) : d \in EntityNames \/ IsWildcard(d)
     /\ \E n \in EntityNames :
           \E d \in Declared(n) : d \notin EntityNames /\ IsWildcard(d))
    => result.error.kind # "missing"

(* C10: whenever build returns a graph, the pruned dependencies of the     *)
(* output nodes hold no cycle.                                             *)
C10_OutputAcyclic == pc = "returned" => ~OutputCycle

====
